---------------------------- MODULE Spec2Model ----------------------------
(***************************************************************************)
(* Model of scripts/tools/debug-true-in-code.py: possiblyEquals(s1, s2),   *)
(* its nested helpers get_options(segment) and dfs(i, j, diff), and the    *)
(* test_cases of its __main__ block.                                       *)
(*                                                                         *)
(* A string is a sequence of one-character strings.  Python positions are  *)
(* 0-based, so s[i] of the source is s[i+1] here and the slice s[x:y] is   *)
(* SubSeq(s, x+1, y).  Character accesses are translated without any added *)
(* guard: an access past the end of a string would stop TLC with an error. *)
(***************************************************************************)
EXTENDS Integers, Sequences, FiniteSets

(* ------------------------------ bounds --------------------------------- *)

\* Largest len(s1) + len(s2) of the enumerated input pairs.
MaxTotal == 4
\* Largest |diff| a direct call of dfs starts with.
MaxDiff == 2
\* Longest digit run handed directly to get_options.
MaxSeg == 3

(* ---------------------------- characters ------------------------------- *)

LowerLetters ==
    {"a", "b", "c", "d", "e", "f", "g", "h", "i", "j", "k", "l", "m",
     "n", "o", "p", "q", "r", "s", "t", "u", "v", "w", "x", "y", "z"}

DigitVal ==
    [c \in {"0", "1", "2", "3", "4", "5", "6", "7", "8", "9"} |->
        CASE c = "0" -> 0 [] c = "1" -> 1 [] c = "2" -> 2 [] c = "3" -> 3
          [] c = "4" -> 4 [] c = "5" -> 5 [] c = "6" -> 6 [] c = "7" -> 7
          [] c = "8" -> 8 [] c = "9" -> 9]

\* str.isalpha() and str.isdigit() on one character of [a-z0-9].
isalpha(c) == c \in LowerLetters
isdigit(c) == c \in DOMAIN DigitVal

\* The characters the enumerated inputs are built from.
Alphabet == {"a", "b", "0", "1"}
SegDigits == {"0", "1", "2"}

StringsUpTo(S, n) == UNION {[1..k -> S] : k \in 0..n}

(* ------------------------------- int() --------------------------------- *)

\* int(seg) of a non-empty digit string: base 10, leading zeros allowed.
RECURSIVE int(_)
int(seg) ==
    IF Len(seg) = 1 THEN DigitVal[seg[1]]
    ELSE 10 * int(SubSeq(seg, 1, Len(seg) - 1)) + DigitVal[seg[Len(seg)]]

\* int('') raises ValueError.
intRaises(seg) == seg = <<>>

(* ---------------------------- get_options ------------------------------ *)

\* The loop nest of get_options at iteration (i, j, k) with res collected so
\* far; a break leaves the k loop only.
RECURSIVE get_options_loop(_, _, _, _, _)
get_options_loop(segment, i, j, k, res) ==
    LET n == Len(segment) IN
    IF i > n THEN [raised |-> FALSE, res |-> res]
    ELSE IF j > n THEN
        get_options_loop(segment, i + 1, i + 1, i + 1, res)
    ELSE IF k > n THEN get_options_loop(segment, i, j + 1, j + 1, res)
    ELSE IF i = n THEN
        get_options_loop(segment, i, j + 1, j + 1,
                         Append(res, int(segment)))
    ELSE IF j = n THEN
        get_options_loop(segment, i, j + 1, j + 1,
                         Append(res, int(SubSeq(segment, 1, i))
                                     + int(SubSeq(segment, i + 1, n))))
    ELSE IF k = n THEN
        IF intRaises(SubSeq(segment, i + 1, j))
        THEN [raised |-> TRUE, res |-> res]
        ELSE get_options_loop(segment, i, j + 1, j + 1,
                 Append(res, int(SubSeq(segment, 1, i))
                             + int(SubSeq(segment, i + 1, j))
                             + int(SubSeq(segment, j + 1, n))))
    ELSE get_options_loop(segment, i, j, k + 1, res)

\* get_options(segment): the list returned, or raised = TRUE for ValueError.
get_options(segment) ==
    IF segment = <<>> THEN [raised |-> FALSE, res |-> <<0>>]
    ELSE get_options_loop(segment, 1, 1, 1, <<>>)

(* -------------------------------- dfs ---------------------------------- *)

\* "len(num_seg) > 3" of the digit scan.
ScanCap == 3

\* The while loop that collects num_seg from position k of s.
RECURSIVE scan(_, _, _)
scan(s, k, num) ==
    IF k < Len(s) /\ isdigit(s[k + 1])
    THEN LET more == Append(num, s[k + 1]) IN
         IF Len(more) > ScanCap THEN more ELSE scan(s, k + 1, more)
    ELSE num

\* A variant of atEnd that tests the cursor of s1 only.
atEndLeftOnly(a, b, i, j) == i = Len(a)
\* "i == len(s1) and j == len(s2)" of the base case.
atEnd(a, b, i, j) == i = Len(a) /\ j = Len(b)

\* A variant of lettersDiffer that lets any two letters match.
lettersNeverDiffer(x, y) == FALSE
\* "s1[i] != s2[j]" of the synchronized branch.
lettersDiffer(x, y) == x # y

\* A variant of dfsBranch in which a digit met at diff == 0 opens the digit
\* scan of the side that holds it instead of failing the branch.
dfsBranchEnterRun(a, b, i, j, diff) ==
    IF atEnd(a, b, i, j) THEN "base"
    ELSE IF diff = 0 /\ i < Len(a) /\ j < Len(b)
            /\ isalpha(a[i + 1]) /\ isalpha(b[j + 1]) THEN
        IF lettersDiffer(a[i + 1], b[j + 1]) THEN "mismatch" ELSE "match"
    ELSE IF diff = 0 /\ j < Len(b) /\ isdigit(b[j + 1]) THEN "pos_digits"
    ELSE IF diff = 0 /\ i < Len(a) /\ isdigit(a[i + 1]) THEN "neg_digits"
    ELSE IF diff = 0 THEN "sync_fail"
    ELSE IF diff > 0 THEN
        IF j >= Len(b) THEN "pos_end"
        ELSE IF isalpha(b[j + 1]) THEN "pos_letter"
        ELSE "pos_digits"
    ELSE
        IF i >= Len(a) THEN "neg_end"
        ELSE IF isalpha(a[i + 1]) THEN "neg_letter"
        ELSE "neg_digits"

\* The if-chain of dfs(i, j, diff) down to its first return, call or scan.
dfsBranch(a, b, i, j, diff) ==
    IF atEnd(a, b, i, j) THEN "base"
    ELSE IF diff = 0 THEN
        IF i < Len(a) /\ j < Len(b)
           /\ isalpha(a[i + 1]) /\ isalpha(b[j + 1]) THEN
            IF lettersDiffer(a[i + 1], b[j + 1]) THEN "mismatch" ELSE "match"
        ELSE "sync_fail"
    ELSE IF diff > 0 THEN
        IF j >= Len(b) THEN "pos_end"
        ELSE IF isalpha(b[j + 1]) THEN "pos_letter"
        ELSE "pos_digits"
    ELSE
        IF i >= Len(a) THEN "neg_end"
        ELSE IF isalpha(a[i + 1]) THEN "neg_letter"
        ELSE "neg_digits"

\* "return diff == 0"
baseResult(diff) == IF diff = 0 THEN "True" ELSE "False"

\* Arguments of the recursive calls.
Args(i, j, diff) == [i |-> i, j |-> j, diff |-> diff]

\* Variants of SyncChild: one leaves an imbalance of 1 behind a matched
\* letter, one advances the cursor of s1 only.
SyncChildSkip(i, j) == Args(i + 1, j + 1, 1)
SyncChildLeftOnly(i, j) == Args(i + 1, j, 0)
\* dfs(i+1, j+1, 0)
SyncChild(i, j) == Args(i + 1, j + 1, 0)

\* A variant of PosLetterChild that does not advance j.
PosLetterChildStay(i, j, diff) == Args(i, j, diff - 1)
\* dfs(i, j+1, diff-1)
PosLetterChild(i, j, diff) == Args(i, j + 1, diff - 1)

\* dfs(i, j+seg_len, diff - val)
PosDigitChild(i, j, diff, seg_len, val) == Args(i, j + seg_len, diff - val)

\* dfs(i+1, j, diff+1)
NegLetterChild(i, j, diff) == Args(i + 1, j, diff + 1)

\* dfs(i+seg_len, j, diff + val)
NegDigitChild(i, j, diff, seg_len, val) == Args(i + seg_len, j, diff + val)

\* dfs as a function of its arguments: "True", "False", or "ValueError" when
\* a get_options call raises.  dfsPosSeg/dfsPosVal are the two for loops of
\* the diff > 0 branch, dfsNegSeg/dfsNegVal those of the diff < 0 branch.
RECURSIVE dfs(_, _, _, _, _)
RECURSIVE dfsPosSeg(_, _, _, _, _, _, _)
RECURSIVE dfsPosVal(_, _, _, _, _, _, _, _, _)
RECURSIVE dfsNegSeg(_, _, _, _, _, _, _)
RECURSIVE dfsNegVal(_, _, _, _, _, _, _, _, _)

dfsPosSeg(a, b, i, j, diff, num, seg_len) ==
    IF seg_len > Len(num) THEN "False"
    ELSE LET got == get_options(SubSeq(num, 1, seg_len)) IN
         IF got.raised THEN "ValueError"
         ELSE dfsPosVal(a, b, i, j, diff, num, seg_len, got.res, 1)

dfsPosVal(a, b, i, j, diff, num, seg_len, opts, idx) ==
    IF idx > Len(opts) THEN dfsPosSeg(a, b, i, j, diff, num, seg_len + 1)
    ELSE LET c == PosDigitChild(i, j, diff, seg_len, opts[idx])
             r == dfs(a, b, c.i, c.j, c.diff) IN
         IF r = "False"
         THEN dfsPosVal(a, b, i, j, diff, num, seg_len, opts, idx + 1)
         ELSE r

dfsNegSeg(a, b, i, j, diff, num, seg_len) ==
    IF seg_len > Len(num) THEN "False"
    ELSE LET got == get_options(SubSeq(num, 1, seg_len)) IN
         IF got.raised THEN "ValueError"
         ELSE dfsNegVal(a, b, i, j, diff, num, seg_len, got.res, 1)

dfsNegVal(a, b, i, j, diff, num, seg_len, opts, idx) ==
    IF idx > Len(opts) THEN dfsNegSeg(a, b, i, j, diff, num, seg_len + 1)
    ELSE LET c == NegDigitChild(i, j, diff, seg_len, opts[idx])
             r == dfs(a, b, c.i, c.j, c.diff) IN
         IF r = "False"
         THEN dfsNegVal(a, b, i, j, diff, num, seg_len, opts, idx + 1)
         ELSE r

dfs(a, b, i, j, diff) ==
    LET br == dfsBranch(a, b, i, j, diff) IN
    CASE br = "base" -> baseResult(diff)
      [] br = "mismatch" -> "False"
      [] br = "match" ->
            LET c == SyncChild(i, j) IN dfs(a, b, c.i, c.j, c.diff)
      [] br = "sync_fail" -> "False"
      [] br = "pos_end" -> "False"
      [] br = "pos_letter" ->
            LET c == PosLetterChild(i, j, diff) IN dfs(a, b, c.i, c.j, c.diff)
      [] br = "pos_digits" -> dfsPosSeg(a, b, i, j, diff, scan(b, j, <<>>), 1)
      [] br = "neg_end" -> "False"
      [] br = "neg_letter" ->
            LET c == NegLetterChild(i, j, diff) IN dfs(a, b, c.i, c.j, c.diff)
      [] br = "neg_digits" -> dfsNegSeg(a, b, i, j, diff, scan(a, i, <<>>), 1)

\* "return dfs(0, 0, 0)"
possiblyEquals(a, b) == dfs(a, b, 0, 0, 0)

(* ------------------------------ inputs --------------------------------- *)

\* test_cases of the __main__ block.
test_cases ==
    { <<<<"a">>, <<"a">>>>,
      <<<<"b">>, <<"1">>>>,
      <<<<"a", "b", "c">>, <<"1", "2", "3">>>> }

\* The enumerated well-formed input pairs.
InputPairs ==
    {p \in StringsUpTo(Alphabet, MaxTotal) \X StringsUpTo(Alphabet, MaxTotal) :
        Len(p[1]) + Len(p[2]) <= MaxTotal}

(* --------------------------- the call stack ---------------------------- *)

VARIABLES
    entry,      \* the function called from outside: "main" and
                \* "possiblyEquals" enter at dfs(0, 0, 0), "dfs" at any
                \* search state, "get_options" calls the enumerator alone
    s1, s2,     \* the arguments of possiblyEquals
    start,      \* the arguments (i, j, diff) of the outermost dfs call
    segment,    \* the argument of a direct get_options call
    stack,      \* the active dfs frames, innermost last
    ret,        \* the value the frame just left handed to its caller
    outcome,    \* "running", or how the outermost call ended
    options     \* the list a direct get_options call returned

vars == <<entry, s1, s2, start, segment, stack, ret, outcome, options>>

\* A frame entering dfs(i, j, diff).  pc is the frame's position:
\*   "enter"     at the top of the body
\*   "tail"      inside "return dfs(...)"
\*   "pos_seg"   at the head of "for seg_len" of the diff > 0 branch
\*   "pos_val"   at the head of "for val"
\*   "pos_wait"  inside "if dfs(i, j+seg_len, diff - val)"
\*   "neg_seg", "neg_val", "neg_wait": the same for the diff < 0 branch
Frame(c) ==
    [i |-> c.i, j |-> c.j, diff |-> c.diff, pc |-> "enter",
     num_seg |-> <<>>, seg_len |-> 0, opts |-> <<>>, idx |-> 0]

Top == stack[Len(stack)]
Below == SubSeq(stack, 1, Len(stack) - 1)
Running == outcome = "running" /\ stack # <<>>
Branch == dfsBranch(s1, s2, Top.i, Top.j, Top.diff)
Entering == Running /\ Top.pc = "enter" /\ ret = "none"

\* The call dfs(c.i, c.j, c.diff) made by the top frame, which waits at pc.
Call(c, pc) ==
    /\ stack' = Append([stack EXCEPT ![Len(stack)].pc = pc], Frame(c))
    /\ UNCHANGED <<entry, s1, s2, start, segment, ret, outcome, options>>

\* The top frame returns r, or raises when r = "ValueError".
Leave(r) ==
    /\ stack' = Below
    /\ IF Len(stack) = 1
       THEN outcome' = r /\ ret' = "none"
       ELSE ret' = r /\ UNCHANGED outcome
    /\ UNCHANGED <<entry, s1, s2, start, segment, options>>

\* The top frame moves on within its own body.
Goto(f) ==
    /\ stack' = [stack EXCEPT ![Len(stack)] = f]
    /\ ret' = "none"
    /\ UNCHANGED <<entry, s1, s2, start, segment, outcome, options>>

\* The state in which dfs(c.i, c.j, c.diff) has just been called on (a, b).
Start(a, b, c) ==
    /\ s1 = a /\ s2 = b
    /\ start = c
    /\ segment = <<>>
    /\ stack = <<Frame(c)>>

Init ==
    /\ ret = "none"
    /\ outcome = "running"
    /\ options = <<>>
    /\ \/ /\ entry = "main"
          /\ \E p \in test_cases : Start(p[1], p[2], Args(0, 0, 0))
       \/ /\ entry = "possiblyEquals"
          /\ \E p \in InputPairs : Start(p[1], p[2], Args(0, 0, 0))
       \/ /\ entry = "dfs"
          /\ \E p \in InputPairs :
             \E i \in 0..Len(p[1]), j \in 0..Len(p[2]),
                d \in (-MaxDiff)..MaxDiff :
                Start(p[1], p[2], Args(i, j, d))
       \/ /\ entry = "get_options"
          /\ s1 = <<>> /\ s2 = <<>>
          /\ start = Args(0, 0, 0)
          /\ segment \in StringsUpTo(SegDigits, MaxSeg)
          /\ stack = <<>>

(* ------------------------------ actions -------------------------------- *)

\* A direct call get_options(segment).
GetOptions ==
    /\ entry = "get_options" /\ outcome = "running"
    /\ LET got == get_options(segment) IN
        /\ outcome' = IF got.raised THEN "ValueError" ELSE "returned"
        /\ options' = got.res
    /\ UNCHANGED <<entry, s1, s2, start, segment, stack, ret>>

\* if i == len(s1) and j == len(s2): return diff == 0
BaseCase == Entering /\ Branch = "base" /\ Leave(baseResult(Top.diff))

\* if s1[i] != s2[j]: return False
SyncMismatch == Entering /\ Branch = "mismatch" /\ Leave("False")

\* return dfs(i+1, j+1, 0)
SyncMatch == Entering /\ Branch = "match" /\ Call(SyncChild(Top.i, Top.j), "tail")

\* diff == 0 with an end or a digit on either side: return False
SyncFail == Entering /\ Branch = "sync_fail" /\ Leave("False")

\* if j >= len(s2): return False
PosEnd == Entering /\ Branch = "pos_end" /\ Leave("False")

\* return dfs(i, j+1, diff-1)
PosLetter ==
    Entering /\ Branch = "pos_letter"
    /\ Call(PosLetterChild(Top.i, Top.j, Top.diff), "tail")

\* The while loop collecting num_seg from s2[j:].
PosScan ==
    Entering /\ Branch = "pos_digits"
    /\ Goto([Top EXCEPT !.pc = "pos_seg", !.num_seg = scan(s2, Top.j, <<>>),
                        !.seg_len = 1])

\* for seg_len in range(1, len(num_seg)+1): get_options(seg); after the last
\* seg_len, return False.
PosSegment ==
    /\ Running /\ Top.pc = "pos_seg"
    /\ IF Top.seg_len > Len(Top.num_seg) THEN Leave("False")
       ELSE LET got == get_options(SubSeq(Top.num_seg, 1, Top.seg_len)) IN
            IF got.raised THEN Leave("ValueError")
            ELSE Goto([Top EXCEPT !.pc = "pos_val", !.opts = got.res, !.idx = 1])

\* for val in get_options(seg): if dfs(i, j+seg_len, diff - val)
PosValue ==
    /\ Running /\ Top.pc = "pos_val"
    /\ IF Top.idx > Len(Top.opts)
       THEN Goto([Top EXCEPT !.pc = "pos_seg", !.seg_len = Top.seg_len + 1])
       ELSE Call(PosDigitChild(Top.i, Top.j, Top.diff, Top.seg_len,
                               Top.opts[Top.idx]), "pos_wait")

\* The call returned: return True, or go on with the next val.
PosResume ==
    /\ Running /\ Top.pc = "pos_wait" /\ ret \in {"True", "False"}
    /\ IF ret = "True" THEN Leave("True")
       ELSE Goto([Top EXCEPT !.pc = "pos_val", !.idx = Top.idx + 1])

\* if i >= len(s1): return False
NegEnd == Entering /\ Branch = "neg_end" /\ Leave("False")

\* return dfs(i+1, j, diff+1)
NegLetter ==
    Entering /\ Branch = "neg_letter"
    /\ Call(NegLetterChild(Top.i, Top.j, Top.diff), "tail")

\* The while loop collecting num_seg from s1[i:].
NegScan ==
    Entering /\ Branch = "neg_digits"
    /\ Goto([Top EXCEPT !.pc = "neg_seg", !.num_seg = scan(s1, Top.i, <<>>),
                        !.seg_len = 1])

NegSegment ==
    /\ Running /\ Top.pc = "neg_seg"
    /\ IF Top.seg_len > Len(Top.num_seg) THEN Leave("False")
       ELSE LET got == get_options(SubSeq(Top.num_seg, 1, Top.seg_len)) IN
            IF got.raised THEN Leave("ValueError")
            ELSE Goto([Top EXCEPT !.pc = "neg_val", !.opts = got.res, !.idx = 1])

\* for val in get_options(seg): if dfs(i+seg_len, j, diff + val)
NegValue ==
    /\ Running /\ Top.pc = "neg_val"
    /\ IF Top.idx > Len(Top.opts)
       THEN Goto([Top EXCEPT !.pc = "neg_seg", !.seg_len = Top.seg_len + 1])
       ELSE Call(NegDigitChild(Top.i, Top.j, Top.diff, Top.seg_len,
                               Top.opts[Top.idx]), "neg_wait")

NegResume ==
    /\ Running /\ Top.pc = "neg_wait" /\ ret \in {"True", "False"}
    /\ IF ret = "True" THEN Leave("True")
       ELSE Goto([Top EXCEPT !.pc = "neg_val", !.idx = Top.idx + 1])

\* "return dfs(...)": the frame returns what the call returned.
TailReturn ==
    /\ Running /\ Top.pc = "tail" /\ ret \in {"True", "False"}
    /\ Leave(ret)

\* An exception raised in a callee passes through the caller.
Propagate == Running /\ ret = "ValueError" /\ Leave("ValueError")

Next ==
    \/ GetOptions
    \/ BaseCase \/ SyncMismatch \/ SyncMatch \/ SyncFail
    \/ PosEnd \/ PosLetter \/ PosScan \/ PosSegment \/ PosValue \/ PosResume
    \/ NegEnd \/ NegLetter \/ NegScan \/ NegSegment \/ NegValue \/ NegResume
    \/ TailReturn \/ Propagate

Spec == Init /\ [][Next]_vars

\* The scheduling of a sequential program: a step that can be taken is taken.
FairSpec == Spec /\ WF_vars(Next)

(* ----------------------------- properties ------------------------------ *)

Done == outcome # "running"
\* The search was entered through possiblyEquals, i.e. at dfs(0, 0, 0).
ViaEntry == entry \in {"main", "possiblyEquals"}
AllLetters(s) == \A k \in 1..Len(s) : isalpha(s[k])
AllDigits(s) == \A k \in 1..Len(s) : isdigit(s[k])
Frames == {stack[k] : k \in 1..Len(stack)}
Min(x, y) == IF x < y THEN x ELSE y

\* Number of consecutive digits of s from 0-based position k on.
RECURSIVE RunLength(_, _)
RunLength(s, k) ==
    IF k < Len(s) /\ isdigit(s[k + 1]) THEN 1 + RunLength(s, k + 1) ELSE 0

\* The sums over the partitions of a digit run into 1, 2 or 3 consecutive
\* non-empty parts; {0} for the empty run.
SplitSums(seg) ==
    LET n == Len(seg)
        part(x, y) == int(SubSeq(seg, x, y)) IN
    IF seg = <<>> THEN {0}
    ELSE {int(seg)}
         \cup {part(1, x) + part(x + 1, n) : x \in 1..(n - 1)}
         \cup {part(1, p[1]) + part(p[1] + 1, p[2]) + part(p[2] + 1, n) :
                 p \in {q \in (1..(n - 1)) \X (1..(n - 1)) : q[1] < q[2]}}

\* C1: possiblyEquals(s, s) returns true for every well-formed s, digit runs
\* included.
C1_Reflexivity == (ViaEntry /\ Done /\ s1 = s2) => outcome = "True"

\* C2: possiblyEquals("1", "01") returns true.
C2_MultiSplit ==
    (ViaEntry /\ Done /\ s1 = <<"1">> /\ s2 = <<"0", "1">>) => outcome = "True"

\* C3: the result of possiblyEquals(s1, s2) is the result of
\* possiblyEquals(s2, s1).
C3_Symmetry == (ViaEntry /\ Done) => outcome = possiblyEquals(s2, s1)
C3_Witness ==
    /\ ViaEntry /\ Done /\ outcome = "False"
    /\ s1 = <<"a", "b">> /\ s2 = <<"a">>

\* C4: on two strings of letters only (possibly empty, possibly of different
\* lengths) possiblyEquals returns true exactly when they are equal.
C4_LiteralEquality ==
    (ViaEntry /\ Done /\ AllLetters(s1) /\ AllLetters(s2)) =>
        /\ outcome \in {"True", "False"}
        /\ (outcome = "True") <=> (s1 = s2)
C4_Witness ==
    /\ ViaEntry /\ Done /\ outcome = "True"
    /\ s1 = <<"a", "b">> /\ s2 = <<"a", "b">>

\* C5: get_options returns, without raising, a list whose values are exactly
\* the 1-, 2- and 3-part split sums of the run ({0} for the empty run).
C5_SplitSums ==
    (entry = "get_options" /\ Done) =>
        /\ outcome = "returned"
        /\ {options[k] : k \in 1..Len(options)} = SplitSums(segment)

\* C6: a call of possiblyEquals on well-formed strings never raises; it ends
\* with a boolean.
C6_NeverRaises == ViaEntry => outcome \in {"running", "True", "False"}
C6_Witness ==
    /\ ViaEntry /\ Done /\ outcome = "False"
    /\ RunLength(s1, 0) >= 2 /\ RunLength(s2, 0) >= 2

\* C7: every call dfs(i', j', d') made from dfs(i, j, d) has i' >= i, j' >= j,
\* i' + j' > i + j, i' <= len(s1) and j' <= len(s2); the recursion is never
\* deeper than len(s1) + len(s2); and the outermost call ends, from whatever
\* search state (i, j, d) it started (with a value, or, from a nonzero d, with
\* the ValueError of get_options that C5 is about).
C7_CallAdvances ==
    Len(stack') = Len(stack) + 1 =>
        LET p == stack[Len(stack)]
            c == stack'[Len(stack')] IN
        /\ c.i >= p.i /\ c.j >= p.j
        /\ c.i + c.j > p.i + p.j
        /\ c.i <= Len(s1) /\ c.j <= Len(s2)
C7_Terminates ==
    /\ [][C7_CallAdvances]_vars
    /\ [](Len(stack) <= Len(s1) + Len(s2) + 1)
    /\ <>Done
C7_Witness ==
    /\ entry = "dfs" /\ start.diff # 0
    /\ Len(s1) + Len(s2) >= 2
    /\ Len(stack) = Len(s1) + Len(s2) + 1

\* C8: possiblyEquals(s1, s2) is false for a non-empty s1 of letters only and
\* an s2 of digits only, and possiblyEquals("a", "a") is true.
C8_LettersNeverSkips ==
    (ViaEntry /\ Done) =>
        /\ (s1 # <<>> /\ AllLetters(s1) /\ AllDigits(s2)) => outcome = "False"
        /\ (s1 = <<"a">> /\ s2 = <<"a">>) => outcome = "True"
C8_Witness ==
    /\ entry = "main" /\ Done /\ outcome = "False"
    /\ s1 = <<"a", "b", "c">> /\ s2 = <<"1", "2", "3">>

\* C9: in a dfs step with nonzero diff at a digit, the prefix lengths seg_len
\* the step ranges over are exactly 1..min(run length, 3).
C9_ScanWindow ==
    \A f \in Frames :
        /\ f.pc \in {"pos_seg", "pos_val", "pos_wait"} =>
               Len(f.num_seg) = Min(RunLength(s2, f.j), 3)
        /\ f.pc \in {"neg_seg", "neg_val", "neg_wait"} =>
               Len(f.num_seg) = Min(RunLength(s1, f.i), 3)

\* C10: in every search state reached from dfs(0, 0, 0) the imbalance is 0 and
\* i == j, the diff > 0 and diff < 0 branches and get_options are never
\* entered, and the result is true only if neither input holds a digit.
C10_AlwaysSynchronized ==
    ViaEntry =>
        /\ \A f \in Frames :
              f.diff = 0 /\ f.i = f.j /\ f.pc \in {"enter", "tail"}
        /\ outcome \in {"running", "True", "False"}
        /\ outcome = "True" => (AllLetters(s1) /\ AllLetters(s2))
C10_Witness ==
    /\ ViaEntry /\ Len(stack) = 2 /\ Top.pc = "enter"
    /\ ~AllLetters(s1) /\ ~AllLetters(s2)

=============================================================================
